---- MODULE Spec2Model ----
(***************************************************************************)
(* BlendLuxCore: the render engine driver (engine/__init__.py), the naming *)
(* helpers (utils/__init__.py) and the object exporter                     *)
(* (export/blender_object.py) as state machines.                           *)
(*                                                                         *)
(*   Spec        : LuxCoreRenderEngine, its callbacks and render() loop    *)
(*   SpecNames   : datablocks, renames and get_luxcore_name                *)
(*   SpecConvert : blender_object.convert and the exported-object cache    *)
(*   SpecGlossy  : the glossy translucent material node and its export     *)
(***************************************************************************)
EXTENDS Integers, Sequences, FiniteSets, TLC

\* ------------------------------------------------------------------ bounds
\* longest human-readable datablock name drawn
MaxNameLen == 2
\* sessions the exporter can create in one run
MaxSessions == 2
\* exceptions that can be raised in one run
MaxExc == 2
\* value of time() when the engine is constructed (seconds since the epoch)
Epoch == 100
\* seconds the clock runs on after Epoch
MaxElapsed == 11
\* longest time one sleep of render() is seen to take, in seconds
MaxSleep == 1
\* entries the error log holds for one exception before the run is cut off
MaxLogged == 2

\* ------------------------------------------------------- naming: variables
VARIABLES
    dbs,        \* the two datablocks: [name, hasType, type, ptr]
    viewport,   \* is_viewport_render of the running export
    exported,   \* luxcore names handed to the session at its export, or NoNames
    renamed     \* some datablock was renamed or retyped since the export

nameVars == <<dbs, viewport, exported, renamed>>

\* ------------------------------------------------------ convert: variables
VARIABLES
    cvObj,      \* the Blender object: visibility, data, material slots
    cvIn,       \* the arguments of the last convert() call and the mesh it saw
    cvPrev,     \* the exported_object argument of that call (None or cached)
    cvOut,      \* what it returned and logged
    cvCache     \* the exporter's cached ExportedObject of the object, or None

convertVars == <<cvObj, cvIn, cvPrev, cvOut, cvCache>>

\* ------------------------------------------- glossy translucent: variables
VARIABLES
    gtNode,     \* the BoolProperty values of the node
    gtEnabled,  \* which of its optional input sockets are enabled
    gtOut       \* the last export: the node as it was, and the definitions

nodeVars == <<gtNode, gtEnabled, gtOut>>

\* ------------------------------------------------------- engine: variables
VARIABLES
    role,         \* what Blender made the instance for: "unused" until the first
                  \* callback, then "final" (update/render) or "viewport"
    alive,        \* the engine instance exists (__del__ has not run)
    session,      \* self._session: 0 for None, else a session id
    error,        \* self.error: 0 for None, else an exception id
    framebuffer,  \* self._framebuffer: "None", "Final" or "Viewport"
    exporterUsed, \* self._exporter holds caches of an earlier export
    updated,      \* update() ran and its render() has not started yet
    sess,         \* the native sessions: state, Stop() calls, who started it, handle dropped
    nextSession,  \* id of the next session create_session makes
    afterStop,    \* a session method was invoked after Stop() or after the handle was dropped
    excAt,        \* where each exception was raised
    nextExc,      \* id of the next exception
    logged,       \* scene.luxcore.errorlog.add_error calls per exception
    reported,     \* report({"ERROR"}) + error_set calls per exception
    statsErr,     \* exceptions shown through update_stats("Error: ", ...)
    escaped,      \* exceptions that propagated out of a callback
    last,         \* what the last callback did
    pc,           \* position of render()
    isAnimation,  \* self.is_animation of the running render
    rSession,     \* the session render() called Start() on, 0 if none
    clock,        \* time()
    start, now, last_refresh, last_film_refresh, last_stat_refresh,
    done, computed_optimal_clamp,   \* locals of render()
    ops,          \* what render() did since its loop iteration began, or since it
                  \* was entered when it is in no loop; kept after it returns
    refreshed_at, \* time of the latest utils_render.refresh of the running render, 0 if none
    breakFlag,    \* test_break(): the user cancelled
    haltMet,      \* the statistics satisfy a user halt condition
    hasDone       \* the session reports HasDone()

engineVars == <<alive, session, error, framebuffer, exporterUsed, updated>>
worldVars == <<sess, nextSession, afterStop>>
excVars == <<excAt, nextExc, logged, reported, statsErr, escaped>>
localVars == <<start, now, last_refresh, last_film_refresh, last_stat_refresh,
               done, computed_optimal_clamp>>
envVars == <<breakFlag, haltMet, hasDone>>
obsVars == <<ops, refreshed_at>>
renderVars == <<pc, isAnimation, rSession, clock, localVars, obsVars, envVars>>

engineAll == <<role, engineVars, worldVars, excVars, last, renderVars>>

vars == <<dbs, viewport, exported, renamed, convertVars, nodeVars,
          role, engineVars, worldVars, excVars, last, renderVars>>

\* ------------------------------------------------------ naming: strings
\* Characters a datablock name is drawn from: a digit, the underscore and
\* one character outside [_0-9a-zA-Z] (letters come in with the type).
NameAlphabet == {"1", "_", " "}

Names == UNION {[1..n -> NameAlphabet] : n \in 1..MaxNameLen}

\* bpy type identifiers as character sequences
TypeMesh == <<"M", "E", "S", "H">>
TypeLamp == <<"L", "A", "M", "P">>
Types == {TypeMesh, TypeLamp}

\* as_pointer() values: a one-digit and a two-digit address
Pointers == {1, 11}

NoNames == <<>>

Lower(c) ==
    CASE c = "M" -> "m" [] c = "E" -> "e" [] c = "S" -> "s" [] c = "H" -> "h"
      [] c = "L" -> "l" [] c = "A" -> "a" [] c = "P" -> "p"
      [] OTHER -> c

Upper(c) ==
    CASE c = "m" -> "M" [] c = "e" -> "E" [] c = "s" -> "S" [] c = "h" -> "H"
      [] c = "l" -> "L" [] c = "a" -> "A" [] c = "p" -> "P"
      [] OTHER -> c

IsLetter(c) ==
    c \in {"a", "e", "h", "l", "m", "p", "s", "A", "E", "H", "L", "M", "P", "S"}

IsAllowed(c) == IsLetter(c) \/ c = "_" \/ c \in {"0", "1", "2", "3", "4", "5", "6", "7", "8", "9"}

\* str.title(): a letter that follows a non-letter is upper-cased, one that
\* follows a letter is lower-cased, every other character is kept.
RECURSIVE TitleFrom(_, _)
TitleFrom(s, afterLetter) ==
    IF s = <<>> THEN <<>>
    ELSE LET c == Head(s)
         IN  <<IF IsLetter(c) THEN (IF afterLetter THEN Lower(c) ELSE Upper(c)) ELSE c>>
             \o TitleFrom(Tail(s), IsLetter(c))

Title(s) == TitleFrom(s, FALSE)

\* str(int) for a non-negative integer: its decimal digits
DigitChar(d) == <<"0", "1", "2", "3", "4", "5", "6", "7", "8", "9">>[d + 1]

RECURSIVE IntToStr(_)
IntToStr(n) ==
    IF n < 10 THEN <<DigitChar(n)>>
    ELSE IntToStr(n \div 10) \o <<DigitChar(n % 10)>>

\* the rest of s after its leading run of characters that are not allowed
RECURSIVE DropDisallowed(_)
DropDisallowed(s) ==
    IF s = <<>> \/ IsAllowed(Head(s)) THEN s ELSE DropDisallowed(Tail(s))

\* re.sub("[^_0-9a-zA-Z]+", "__", string)
RECURSIVE to_luxcore_name(_)
to_luxcore_name(s) ==
    IF s = <<>> THEN <<>>
    ELSE IF IsAllowed(Head(s)) THEN <<Head(s)>> \o to_luxcore_name(Tail(s))
    ELSE <<"_", "_">> \o to_luxcore_name(DropDisallowed(s))

\* str(datablock.as_pointer()), with the low decimal digit only
make_key_low_digit(db) == IntToStr(db.ptr % 10)

\* str(datablock.as_pointer())
make_key(db) == IntToStr(db.ptr)

get_pretty_name(db) ==
    IF db.hasType THEN Title(db.type) \o <<"_">> \o db.name ELSE db.name

\* get_luxcore_name that uses the pretty name in viewport render too
get_luxcore_name_pretty(db, is_viewport_render) ==
    to_luxcore_name(get_pretty_name(db)) \o <<"_">> \o make_key(db)

get_luxcore_name(db, is_viewport_render) ==
    IF ~is_viewport_render
    THEN to_luxcore_name(get_pretty_name(db)) \o <<"_">> \o make_key(db)
    ELSE make_key(db)

\* ------------------------------------------------------ engine: constants
\* export.Change bits (the class itself is not part of the sources at hand)
CONFIG == 1
CAMERA == 2
OBJECT == 4
REQUIRES_VIEW_UPDATE == CONFIG
ChangeSets == 0..(CONFIG + CAMERA + OBJECT)
\* what get_changes reports during a final render: nothing, or a change
FinalChangeSets == {0, OBJECT}

FAST_REFRESH_DURATION == 5
stat_refresh_interval == 1
\* seconds of warmup before the optimal clamp value is computed
clamp_warmup == 10
\* scene.luxcore.display.interval, and the shortest display interval
display_interval == 3
refresh_interval == 2

\* a & b on naturals
RECURSIVE BitAnd(_, _)
BitAnd(a, b) ==
    IF a = 0 \/ b = 0 THEN 0
    ELSE 2 * BitAnd(a \div 2, b \div 2) + (IF a % 2 = 1 /\ b % 2 = 1 THEN 1 ELSE 0)

SessionIds == 1..MaxSessions
ExcIds == 1..MaxExc
MaxClock == Epoch + MaxElapsed

NoSession == [st |-> "none", stops |-> 0, pauses |-> 0, by |-> "none", dropped |-> FALSE]
NoCall == [cb |-> "none", ran |-> FALSE, exc |-> 0, changes |-> 0, sent |-> 0,
           via |-> "none", redraw |-> FALSE, fb |-> FALSE, pause |-> FALSE,
           over |-> FALSE, stale |-> FALSE]

\* one operation of render(), with the arguments that matter
Op(name) == [op |-> name, draw_film |-> FALSE, changes |-> 0, path |-> "", format |-> ""]
Refresh(draw_film) == [Op("refresh") EXCEPT !.draw_film = draw_film]
ExceptOps == <<Op("except"), Op("clear")>>
\* scene.luxcore.config.filesaver_format
FilesaverFormats == {"BIN", "TXT"}

\* ------------------------------------------------- engine: native sessions
\* A session method is about to be invoked on s: was Stop() already called
\* on s, or was its handle dropped?
Stale(s) == sess[s].stops > 0 \/ sess[s].dropped

\* session.Start() called from `by`
Started(ss, s, by) == [ss EXCEPT ![s].st = "started", ![s].by = by]
\* session.Stop()
Stopped(ss, s) == [ss EXCEPT ![s].st = "stopped", ![s].stops = @ + 1]
\* session.Pause()
Paused(ss, s) == [ss EXCEPT ![s].st = "paused", ![s].pauses = @ + 1]
\* del self._session: the last reference to the session goes away
Dropped(ss, s) == IF s = 0 THEN ss ELSE [ss EXCEPT ![s].dropped = TRUE]

\* An exception is raised at `place`: it gets the next id.
CanRaise == nextExc <= MaxExc
Raise(place) ==
    /\ excAt' = [excAt EXCEPT ![nextExc] = place]
    /\ nextExc' = nextExc + 1

\* the locals of render() when it is not running
ResetLocals ==
    /\ start' = 0 /\ now' = 0 /\ last_refresh' = 0
    /\ last_film_refresh' = 0 /\ last_stat_refresh' = 0
    /\ done' = FALSE /\ computed_optimal_clamp' = FALSE

EngineInit ==
    /\ role = "unused"
    /\ alive = TRUE
    /\ session = 0
    /\ error = 0
    /\ framebuffer = "None"
    /\ exporterUsed = FALSE
    /\ updated = FALSE
    /\ sess = [s \in SessionIds |-> NoSession]
    /\ nextSession = 1
    /\ afterStop = FALSE
    /\ excAt = [e \in ExcIds |-> "none"]
    /\ nextExc = 1
    /\ logged = [e \in ExcIds |-> 0]
    /\ reported = [e \in ExcIds |-> 0]
    /\ statsErr = {}
    /\ escaped = {}
    /\ last = NoCall
    /\ pc = "idle"
    /\ ops = <<>>
    /\ refreshed_at = 0
    /\ isAnimation = FALSE
    /\ rSession = 0
    /\ clock = Epoch
    /\ start = 0 /\ now = 0 /\ last_refresh = 0
    /\ last_film_refresh = 0 /\ last_stat_refresh = 0
    /\ done = FALSE /\ computed_optimal_clamp = FALSE
    /\ breakFlag = FALSE /\ haltMet = FALSE /\ hasDone = FALSE

\* --------------------------------------------------------- engine: __del__
\* __del__: stops a session that is still held; the instance is gone after.
Del ==
    /\ alive /\ pc = "idle"
    /\ alive' = FALSE
    /\ IF session # 0
       THEN /\ sess' = Dropped(Stopped(sess, session), session)
            /\ afterStop' = (afterStop \/ Stale(session))
       ELSE UNCHANGED <<sess, afterStop>>
    /\ last' = [NoCall EXCEPT !.cb = "__del__", !.ran = (session # 0)]
    /\ UNCHANGED <<session, error, framebuffer, exporterUsed, updated,
                   nextSession, excVars, renderVars>>
    /\ UNCHANGED <<nameVars, convertVars, nodeVars>>
    /\ UNCHANGED role

\* ---------------------------------------------------------- engine: update
\* update(): the assertion fails, or create_session raises: self.error is set
UpdateFails ==
    /\ role \in {"unused", "final"}
    /\ role' = "final"
    /\ alive /\ pc = "idle"
    /\ CanRaise
    /\ Raise(IF session = 0 THEN "export" ELSE "update_assert")
    /\ error' = nextExc
    /\ exporterUsed' = IF session = 0 THEN TRUE ELSE exporterUsed
    /\ updated' = TRUE
    /\ last' = [NoCall EXCEPT !.cb = "update", !.ran = TRUE, !.exc = nextExc]
    /\ UNCHANGED <<alive, session, framebuffer, worldVars,
                   logged, reported, statsErr, escaped, renderVars>>
    /\ UNCHANGED <<nameVars, convertVars, nodeVars>>

\* update(): create_session returns None, the user cancelled the export
UpdateCancelled ==
    /\ role \in {"unused", "final"}
    /\ role' = "final"
    /\ alive /\ pc = "idle"
    /\ session = 0
    /\ exporterUsed' = TRUE
    /\ updated' = TRUE
    /\ last' = [NoCall EXCEPT !.cb = "update", !.ran = TRUE]
    /\ UNCHANGED <<alive, session, error, framebuffer, worldVars, excVars, renderVars>>
    /\ UNCHANGED <<nameVars, convertVars, nodeVars>>

\* update(): a new exporter creates the session
UpdateOk ==
    /\ role \in {"unused", "final"}
    /\ role' = "final"
    /\ alive /\ pc = "idle"
    /\ session = 0
    /\ nextSession <= MaxSessions
    /\ session' = nextSession
    /\ sess' = [sess EXCEPT ![nextSession].st = "created"]
    /\ nextSession' = nextSession + 1
    /\ exporterUsed' = TRUE
    /\ updated' = TRUE
    /\ last' = [NoCall EXCEPT !.cb = "update", !.ran = TRUE]
    /\ UNCHANGED <<alive, error, framebuffer, afterStop, excVars, renderVars>>
    /\ UNCHANGED <<nameVars, convertVars, nodeVars>>

\* ------------------------------------------------ engine: viewport update
\* Exporter.update(context, session, changes): the session it returns is the
\* one it was given, or a new started one that replaces it (the exporter
\* stops the old one).
ExporterUpdateResults ==
    {[session |-> session, sess |-> sess, nextSession |-> nextSession]}
    \cup (IF nextSession <= MaxSessions
          THEN {[session |-> nextSession,
                 sess |-> Started(Dropped(Stopped(sess, session), session),
                                  nextSession, "viewport"),
                 nextSession |-> nextSession + 1]}
          ELSE {})

\* view_update_lux with no session: create_session and Start() succeed
ViewUpdateCreate ==
    /\ role \in {"unused", "viewport"}
    /\ role' = "viewport"
    /\ alive /\ pc = "idle"
    /\ session = 0
    /\ nextSession <= MaxSessions
    /\ session' = nextSession
    /\ sess' = Started(sess, nextSession, "viewport")
    /\ nextSession' = nextSession + 1
    /\ exporterUsed' = TRUE
    /\ last' = [NoCall EXCEPT !.cb = "view_update", !.ran = TRUE]
    /\ UNCHANGED <<alive, error, framebuffer, updated, afterStop, excVars, renderVars>>
    /\ UNCHANGED <<nameVars, convertVars, nodeVars>>

\* view_update_lux with no session: create_session raises (started = FALSE)
\* or Start() raises on the session just created (started = TRUE)
ViewUpdateCreateRaises(started) ==
    /\ role \in {"unused", "viewport"}
    /\ role' = "viewport"
    /\ alive /\ pc = "idle"
    /\ session = 0
    /\ CanRaise
    /\ Raise(IF started THEN "view_start" ELSE "view_create")
    /\ IF started
       THEN /\ nextSession <= MaxSessions
            /\ sess' = Dropped([sess EXCEPT ![nextSession].st = "created"], nextSession)
            /\ nextSession' = nextSession + 1
       ELSE UNCHANGED <<sess, nextSession>>
    /\ session' = 0
    /\ exporterUsed' = FALSE
    /\ statsErr' = statsErr \cup {nextExc}
    /\ logged' = [logged EXCEPT ![nextExc] = @ + 1]
    /\ last' = [NoCall EXCEPT !.cb = "view_update", !.ran = TRUE, !.exc = nextExc]
    /\ UNCHANGED <<alive, error, framebuffer, updated, afterStop,
                   reported, escaped, renderVars>>
    /\ UNCHANGED <<nameVars, convertVars, nodeVars>>

\* view_update_lux with a session, called from view_update: the changes are
\* read from the exporter and sent through Exporter.update
ViewUpdateChanges(changes) ==
    /\ role \in {"unused", "viewport"}
    /\ role' = "viewport"
    /\ alive /\ pc = "idle"
    /\ session # 0
    /\ \E r \in ExporterUpdateResults :
         /\ session' = r.session
         /\ sess' = r.sess
         /\ nextSession' = r.nextSession
    /\ afterStop' = (afterStop \/ Stale(session))
    /\ framebuffer' = IF BitAnd(changes, CONFIG) # 0 THEN "Viewport" ELSE framebuffer
    /\ last' = [NoCall EXCEPT !.cb = "view_update", !.ran = TRUE, !.changes = changes,
                              !.sent = changes, !.via = "view_update_lux"]
    /\ UNCHANGED <<alive, error, exporterUsed, updated, excVars, renderVars>>
    /\ UNCHANGED <<nameVars, convertVars, nodeVars>>

\* view_update_lux with a session, called from view_update: get_changes
\* (inUpdate = FALSE) or Exporter.update (inUpdate = TRUE) raises; nothing
\* catches it
ViewUpdateChangesRaises(changes, inUpdate) ==
    /\ role \in {"unused", "viewport"}
    /\ role' = "viewport"
    /\ alive /\ pc = "idle"
    /\ session # 0
    /\ CanRaise
    /\ Raise("view_update")
    /\ escaped' = escaped \cup {nextExc}
    /\ afterStop' = (afterStop \/ (inUpdate /\ Stale(session)))
    /\ framebuffer' = IF inUpdate /\ BitAnd(changes, CONFIG) # 0
                      THEN "Viewport" ELSE framebuffer
    /\ last' = [NoCall EXCEPT !.cb = "view_update", !.ran = TRUE, !.exc = nextExc,
                              !.changes = IF inUpdate THEN changes ELSE 0,
                              !.sent = IF inUpdate THEN changes ELSE 0,
                              !.via = IF inUpdate THEN "view_update_lux" ELSE "none"]
    /\ UNCHANGED <<alive, session, error, exporterUsed, updated, sess, nextSession,
                   logged, reported, statsErr, renderVars>>
    /\ UNCHANGED <<nameVars, convertVars, nodeVars>>

\* -------------------------------------------------- engine: viewport draw
\* view_draw with no session: returns at once
ViewDrawNoSession ==
    /\ role \in {"unused", "viewport"}
    /\ role' = "viewport"
    /\ alive /\ pc = "idle"
    /\ session = 0
    /\ last' = [NoCall EXCEPT !.cb = "view_draw"]
    /\ UNCHANGED <<engineVars, worldVars, excVars, renderVars>>
    /\ UNCHANGED <<nameVars, convertVars, nodeVars>>

\* the except branch of view_draw, for an exception raised with `l` done so
\* far and `ss` the sessions as the try block left them
ViewDrawExcept(l, ss) ==
    /\ CanRaise
    /\ Raise("view_draw")
    /\ sess' = Dropped(ss, session)
    /\ session' = 0
    /\ statsErr' = statsErr \cup {nextExc}
    /\ last' = [l EXCEPT !.exc = nextExc]
    /\ UNCHANGED <<logged, reported, escaped>>

\* view_draw: get_changes raises
ViewDrawGetChangesRaises ==
    /\ role \in {"unused", "viewport"}
    /\ role' = "viewport"
    /\ alive /\ pc = "idle"
    /\ session # 0
    /\ ViewDrawExcept([NoCall EXCEPT !.cb = "view_draw", !.ran = TRUE], sess)
    /\ UNCHANGED <<alive, error, framebuffer, exporterUsed, updated,
                   nextSession, afterStop, renderVars>>
    /\ UNCHANGED <<nameVars, convertVars, nodeVars>>

\* view_draw: the changes require a view update: tag_redraw, then
\* view_update_lux(context, changes), then return
ViewDrawViewUpdate(changes) ==
    /\ role \in {"unused", "viewport"}
    /\ role' = "viewport"
    /\ alive /\ pc = "idle"
    /\ session # 0
    /\ BitAnd(changes, REQUIRES_VIEW_UPDATE) # 0
    /\ \E r \in ExporterUpdateResults :
         /\ session' = r.session
         /\ sess' = r.sess
         /\ nextSession' = r.nextSession
    /\ afterStop' = (afterStop \/ Stale(session))
    /\ framebuffer' = IF BitAnd(changes, CONFIG) # 0 THEN "Viewport" ELSE framebuffer
    /\ last' = [NoCall EXCEPT !.cb = "view_draw", !.ran = TRUE, !.changes = changes,
                              !.sent = changes, !.via = "view_update_lux",
                              !.redraw = TRUE]
    /\ UNCHANGED <<alive, error, exporterUsed, updated, excVars, renderVars>>
    /\ UNCHANGED <<nameVars, convertVars, nodeVars>>

\* view_draw: the changes require a view update and Exporter.update raises
\* inside view_update_lux; the except branch of view_draw catches it
ViewDrawViewUpdateRaises(changes) ==
    /\ role \in {"unused", "viewport"}
    /\ role' = "viewport"
    /\ alive /\ pc = "idle"
    /\ session # 0
    /\ BitAnd(changes, REQUIRES_VIEW_UPDATE) # 0
    /\ ViewDrawExcept([NoCall EXCEPT !.cb = "view_draw", !.ran = TRUE,
                                     !.changes = changes, !.sent = changes,
                                     !.via = "view_update_lux", !.redraw = TRUE],
                      sess)
    /\ afterStop' = (afterStop \/ Stale(session))
    /\ framebuffer' = IF BitAnd(changes, CONFIG) # 0 THEN "Viewport" ELSE framebuffer
    /\ UNCHANGED <<alive, error, exporterUsed, updated, nextSession, renderVars>>
    /\ UNCHANGED <<nameVars, convertVars, nodeVars>>

\* what view_draw sends to Exporter.update itself for these changes
DirectUpdateAll(changes) == changes
DirectUpdate(changes) == IF BitAnd(changes, CAMERA) # 0 THEN CAMERA ELSE 0

\* view_draw: no view update is required; a camera change goes to
\* view_draw pauses whenever the halt time is exceeded
NeedsPauseAlways(over, st) == over
\* view_draw: rendered_time > halt_time and not self._session.IsInPause()
NeedsPause(over, st) == over /\ st # "paused"

\* Exporter.update, then the framebuffer is updated and drawn and the
\* viewport halt time is checked (over: rendered_time > halt_time)
ViewDrawDraw(changes, over) ==
    /\ role \in {"unused", "viewport"}
    /\ role' = "viewport"
    /\ alive /\ pc = "idle"
    /\ session # 0
    /\ BitAnd(changes, REQUIRES_VIEW_UPDATE) = 0
    /\ \E r \in (IF DirectUpdate(changes) # 0
                 THEN ExporterUpdateResults
                 ELSE {[session |-> session, sess |-> sess, nextSession |-> nextSession]}) :
         LET pause == NeedsPause(over, r.sess[r.session].st)
         IN  /\ session' = r.session
             /\ sess' = IF pause THEN Paused(r.sess, r.session) ELSE r.sess
             /\ nextSession' = r.nextSession
             /\ afterStop' = (afterStop \/ Stale(session))
             /\ last' = [NoCall EXCEPT !.cb = "view_draw", !.ran = TRUE,
                                       !.changes = changes,
                                       !.sent = DirectUpdate(changes),
                                       !.via = IF DirectUpdate(changes) # 0
                                               THEN "view_draw" ELSE "none",
                                       !.redraw = ~over, !.fb = TRUE, !.pause = pause,
                                       !.over = over]
    /\ framebuffer' = IF framebuffer = "None" THEN "Viewport" ELSE framebuffer
    /\ UNCHANGED <<alive, error, exporterUsed, updated, excVars, renderVars>>
    /\ UNCHANGED <<nameVars, convertVars, nodeVars>>

\* view_draw: no view update is required and an operation raises: the camera
\* update ("update"), UpdateStats/WaitNewFrame before the framebuffer is
\* touched ("stats"), a call after the draw ("after"), or a call after the
\* halt time was checked ("end")
ViewDrawDrawRaises(changes, failAt, over) ==
    /\ role \in {"unused", "viewport"}
    /\ role' = "viewport"
    /\ alive /\ pc = "idle"
    /\ session # 0
    /\ BitAnd(changes, REQUIRES_VIEW_UPDATE) = 0
    /\ failAt = "update" => DirectUpdate(changes) # 0
    /\ \E r \in (IF DirectUpdate(changes) # 0 /\ failAt # "update"
                 THEN ExporterUpdateResults
                 ELSE {[session |-> session, sess |-> sess, nextSession |-> nextSession]}) :
         LET pause == failAt = "end" /\ NeedsPause(over, r.sess[r.session].st)
         IN  /\ CanRaise
             /\ Raise("view_draw")
             /\ sess' = Dropped(IF pause THEN Paused(r.sess, r.session) ELSE r.sess,
                                r.session)
             /\ nextSession' = r.nextSession
             /\ last' = [NoCall EXCEPT !.cb = "view_draw", !.ran = TRUE, !.exc = nextExc,
                                       !.changes = changes,
                                       !.sent = DirectUpdate(changes),
                                       !.via = IF DirectUpdate(changes) # 0
                                               THEN "view_draw" ELSE "none",
                                       !.fb = (failAt \in {"after", "end"}),
                                       !.redraw = (failAt = "end" /\ ~over),
                                       !.pause = pause,
                                       !.over = over]
    /\ failAt # "end" => ~over
    /\ session' = 0
    /\ statsErr' = statsErr \cup {nextExc}
    /\ afterStop' = (afterStop \/ Stale(session))
    /\ framebuffer' = IF framebuffer = "None" /\ failAt # "update"
                      THEN "Viewport" ELSE framebuffer
    /\ UNCHANGED <<alive, error, exporterUsed, updated, logged, reported, escaped,
                   renderVars>>
    /\ UNCHANGED <<nameVars, convertVars, nodeVars>>

\* ---------------------------------------------------------- engine: render
FastPcs == {"fast_top", "fast_refresh", "fast_check"}
SlowPcs == {"slow_init", "slow_top", "slow_refresh", "slow_clamp"}
LoopPcs == FastPcs \cup SlowPcs

\* the except branch of render() without `self._session = None`
RenderExceptKeepHandle(e, ss) ==
    /\ reported' = [reported EXCEPT ![e] = @ + 1]
    /\ logged' = [logged EXCEPT ![e] = @ + 1]
    /\ sess' = Dropped(ss, session)
    /\ session' = session
    /\ pc' = "idle"
    /\ ResetLocals
    /\ UNCHANGED <<statsErr, escaped>>

\* the except branch of render() for exception e, with `ss` the sessions as
\* the try block left them: report, error_set, add_error, drop the handle
RenderExcept(e, ss) ==
    /\ reported' = [reported EXCEPT ![e] = @ + 1]
    /\ logged' = [logged EXCEPT ![e] = @ + 1]
    /\ sess' = Dropped(ss, session)
    /\ session' = 0
    /\ pc' = "idle"
    /\ ResetLocals
    /\ UNCHANGED <<statsErr, escaped>>

\* render(): self.error is set, it is raised again and handled
RenderReraise ==
    /\ alive /\ pc = "idle" /\ updated
    /\ error # 0
    /\ logged[error] < MaxLogged
    /\ RenderExcept(error, sess)
    /\ updated' = FALSE
    /\ rSession' = 0
    /\ last' = [NoCall EXCEPT !.cb = "render", !.ran = TRUE, !.exc = error,
                              !.stale = ~(last.cb = "update" /\ last.exc = error)]
    /\ UNCHANGED <<alive, error, framebuffer, exporterUsed, nextSession, afterStop,
                   excAt, nextExc, isAnimation, clock, envVars>>
    /\ UNCHANGED <<nameVars, convertVars, nodeVars>>
    /\ UNCHANGED role
    /\ ops' = ExceptOps
    /\ refreshed_at' = 0

\* render(): no error and no session: the export was cancelled by the user
RenderCancelled ==
    /\ alive /\ pc = "idle" /\ updated
    /\ error = 0 /\ session = 0
    /\ updated' = FALSE
    /\ rSession' = 0
    /\ last' = [NoCall EXCEPT !.cb = "render"]
    /\ UNCHANGED <<alive, session, error, framebuffer, exporterUsed, worldVars, excVars,
                   pc, isAnimation, clock, localVars, envVars>>
    /\ UNCHANGED <<nameVars, convertVars, nodeVars>>
    /\ UNCHANGED role
    /\ ops' = <<>>
    /\ refreshed_at' = 0

\* render(): the framebuffer is made, the session started, the start time taken
RenderStart(animation) ==
    /\ alive /\ pc = "idle" /\ updated
    /\ error = 0 /\ session # 0
    /\ updated' = FALSE
    /\ framebuffer' = "Final"
    /\ sess' = Started(sess, session, "render")
    /\ afterStop' = (afterStop \/ Stale(session))
    /\ rSession' = session
    /\ isAnimation' = animation
    /\ done' = FALSE
    /\ start' = clock
    /\ pc' = "started"
    /\ breakFlag' = FALSE /\ haltMet' = FALSE /\ hasDone' = FALSE
    /\ last' = [NoCall EXCEPT !.cb = "render", !.ran = TRUE]
    /\ UNCHANGED <<alive, session, error, exporterUsed, nextSession, excVars, clock,
                   now, last_refresh, last_film_refresh, last_stat_refresh,
                   computed_optimal_clamp>>
    /\ UNCHANGED <<nameVars, convertVars, nodeVars>>
    /\ UNCHANGED role
    /\ ops' = <<Op("Start")>>
    /\ refreshed_at' = 0

\* render(): Start() raises
RenderStartRaises ==
    /\ alive /\ pc = "idle" /\ updated
    /\ error = 0 /\ session # 0
    /\ CanRaise
    /\ Raise("render")
    /\ RenderExcept(nextExc, sess)
    /\ updated' = FALSE
    /\ framebuffer' = "Final"
    /\ afterStop' = (afterStop \/ Stale(session))
    /\ rSession' = 0
    /\ last' = [NoCall EXCEPT !.cb = "render", !.ran = TRUE, !.exc = nextExc]
    /\ UNCHANGED <<alive, error, exporterUsed, nextSession, isAnimation, clock, envVars>>
    /\ UNCHANGED <<nameVars, convertVars, nodeVars>>
    /\ UNCHANGED role
    /\ ops' = <<Op("Start")>> \o ExceptOps
    /\ refreshed_at' = 0

\* render(), use_filesaver set: go to the filesaver branch
RenderBranchFilesaver ==
    /\ pc = "started"
    /\ pc' = "filesaver"
    /\ UNCHANGED <<engineVars, worldVars, excVars, last, isAnimation, rSession, clock,
                   localVars, envVars>>
    /\ UNCHANGED <<nameVars, convertVars, nodeVars>>
    /\ UNCHANGED role
    /\ UNCHANGED obsVars

\* the property the reported path is read from, always the directory
OutputPathPropertyDirectory(filesaver_format) == "filesaver.directory"
\* the property the reported path is read from
OutputPathProperty(filesaver_format) ==
    IF filesaver_format = "BIN" THEN "filesaver.filename" ELSE "filesaver.directory"

\* render(), filesaver: Stop(), report the output path, clear the handle
RenderFilesaver(filesaver_format) ==
    /\ pc = "filesaver"
    /\ sess' = Dropped(Stopped(sess, session), session)
    /\ afterStop' = (afterStop \/ Stale(session))
    /\ session' = 0
    /\ pc' = "idle"
    /\ ResetLocals
    /\ UNCHANGED <<alive, error, framebuffer, exporterUsed, updated, nextSession,
                   excVars, last, isAnimation, rSession, clock, envVars>>
    /\ UNCHANGED <<nameVars, convertVars, nodeVars>>
    /\ UNCHANGED role
    /\ ops' = ops \o <<Op("Stop"),
                        [Op("report") EXCEPT
                            !.format = filesaver_format,
                            !.path = OutputPathProperty(filesaver_format)],
                        Op("clear")>>
    /\ refreshed_at' = 0

\* render(), not an animation: enter the fast refresh loop
RenderBeginFast ==
    /\ pc = "started"
    /\ ~isAnimation
    /\ last_refresh' = 0
    /\ pc' = "fast_top"
    /\ UNCHANGED <<engineVars, worldVars, excVars, last, isAnimation, rSession, clock,
                   start, now, last_film_refresh, last_stat_refresh, done,
                   computed_optimal_clamp, envVars>>
    /\ UNCHANGED <<nameVars, convertVars, nodeVars>>
    /\ UNCHANGED role
    /\ ops' = <<>>
    /\ UNCHANGED refreshed_at

\* render(), animation: the fast refresh loop is skipped
RenderSkipFast ==
    /\ pc = "started"
    /\ isAnimation
    /\ pc' = "slow_init"
    /\ UNCHANGED <<engineVars, worldVars, excVars, last, isAnimation, rSession, clock,
                   localVars, envVars>>
    /\ UNCHANGED <<nameVars, convertVars, nodeVars>>
    /\ UNCHANGED role
    /\ ops' = <<>>
    /\ UNCHANGED refreshed_at

\* fast loop: `while not done`, then now = time() and the refresh test
FastTop ==
    /\ pc = "fast_top"
    /\ IF done
       THEN /\ pc' = "slow_init"
            /\ now' = now
       ELSE /\ now' = clock
            /\ pc' = IF clock - last_refresh > refresh_interval
                     THEN "fast_refresh" ELSE "fast_check"
    /\ UNCHANGED <<engineVars, worldVars, excVars, last, isAnimation, rSession, clock,
                   start, last_refresh, last_film_refresh, last_stat_refresh, done,
                   computed_optimal_clamp, envVars>>
    /\ UNCHANGED <<nameVars, convertVars, nodeVars>>
    /\ UNCHANGED role
    /\ ops' = <<>>
    /\ UNCHANGED refreshed_at

\* fast loop: refresh with draw_film=True, then the halt conditions
FastRefresh ==
    /\ pc = "fast_refresh"
    /\ afterStop' = (afterStop \/ Stale(session))
    /\ done' = (haltMet \/ breakFlag \/ hasDone)
    /\ pc' = "fast_check"
    /\ UNCHANGED <<engineVars, sess, nextSession, excVars, last, isAnimation, rSession,
                   clock, start, now, last_refresh, last_film_refresh,
                   last_stat_refresh, computed_optimal_clamp, envVars>>
    /\ UNCHANGED <<nameVars, convertVars, nodeVars>>
    /\ UNCHANGED role
    /\ ops' = <<Refresh(TRUE), Op("halt_check")>>
    /\ refreshed_at' = clock

\* the fast loop ends when now - start >= FAST_REFRESH_DURATION
FastPhaseOverEarly == now - start >= FAST_REFRESH_DURATION
\* the fast loop ends when now - start > FAST_REFRESH_DURATION
FastPhaseOver == now - start > FAST_REFRESH_DURATION

\* fast loop: the switch to the slow loop, else the test_break polls, which
\* sleep for `slept` seconds in all
FastCheck(slept) ==
    /\ pc = "fast_check"
    /\ IF FastPhaseOver
       THEN /\ pc' = "slow_init"
            /\ done' = done
            /\ slept = 0
            /\ clock' = clock
       ELSE /\ done' = (done \/ breakFlag)
            /\ pc' = "fast_top"
            /\ clock + slept <= MaxClock
            /\ clock' = clock + (IF breakFlag THEN 0 ELSE slept)
    /\ UNCHANGED <<engineVars, worldVars, excVars, last, isAnimation, rSession,
                   start, now, last_refresh, last_film_refresh, last_stat_refresh,
                   computed_optimal_clamp, envVars>>
    /\ UNCHANGED <<nameVars, convertVars, nodeVars>>
    /\ UNCHANGED role
    /\ UNCHANGED obsVars

\* the main loop is set up
SlowInit ==
    /\ pc = "slow_init"
    /\ last_film_refresh' = clock
    /\ last_stat_refresh' = clock
    /\ computed_optimal_clamp' = FALSE
    /\ pc' = "slow_top"
    /\ UNCHANGED <<engineVars, worldVars, excVars, last, isAnimation, rSession, clock,
                   start, now, last_refresh, done, envVars>>
    /\ UNCHANGED <<nameVars, convertVars, nodeVars>>
    /\ UNCHANGED role
    /\ UNCHANGED obsVars

\* main loop: `while not self.test_break() and not done`, then now = time()
SlowTop ==
    /\ pc = "slow_top"
    /\ IF breakFlag \/ done
       THEN /\ pc' = "final"
            /\ now' = now
       ELSE /\ now' = clock
            /\ pc' = IF clock - last_stat_refresh > stat_refresh_interval
                     THEN "slow_refresh" ELSE "slow_clamp"
    /\ UNCHANGED <<engineVars, worldVars, excVars, last, isAnimation, rSession, clock,
                   start, last_refresh, last_film_refresh, last_stat_refresh, done,
                   computed_optimal_clamp, envVars>>
    /\ UNCHANGED <<nameVars, convertVars, nodeVars>>
    /\ UNCHANGED role
    /\ ops' = <<>>
    /\ UNCHANGED refreshed_at

\* draw_film without `draw_film |= changes`
DrawFilmIgnoringChanges(time_until_film_refresh, changes) == time_until_film_refresh <= 0
\* draw_film = time_until_film_refresh <= 0; draw_film |= changes
DrawFilm(time_until_film_refresh, changes) ==
    (time_until_film_refresh <= 0) \/ (changes # 0)

\* main loop: session update with the detected changes, refresh, halt
\* conditions, refresh times
SlowRefresh(changes) ==
    /\ pc = "slow_refresh"
    /\ LET time_until_film_refresh == display_interval - (now - last_film_refresh)
           draw_film == DrawFilm(time_until_film_refresh, changes)
       IN  /\ last_stat_refresh' = now
           /\ last_film_refresh' = IF draw_film THEN now ELSE last_film_refresh
           /\ ops' = <<[Op("get_changes") EXCEPT !.changes = changes],
                       [Op("update_session") EXCEPT !.changes = changes],
                       Refresh(draw_film), Op("halt_check")>>
    /\ afterStop' = (afterStop \/ Stale(session))
    /\ done' = (haltMet \/ breakFlag \/ hasDone)
    /\ pc' = "slow_clamp"
    /\ UNCHANGED <<engineVars, sess, nextSession, excVars, last, isAnimation, rSession,
                   clock, start, now, last_refresh, computed_optimal_clamp, envVars>>
    /\ UNCHANGED <<nameVars, convertVars, nodeVars>>
    /\ UNCHANGED role
    /\ refreshed_at' = clock

\* main loop: the optimal clamp value is computed, once, after the warmup
SlowClampCompute(slept) ==
    /\ pc = "slow_clamp"
    /\ ~computed_optimal_clamp
    /\ clock - start > clamp_warmup
    /\ afterStop' = (afterStop \/ Stale(session))
    /\ computed_optimal_clamp' = TRUE
    /\ pc' = "slow_top"
    /\ clock + slept <= MaxClock
    /\ clock' = clock + slept
    /\ UNCHANGED <<engineVars, sess, nextSession, excVars, last, isAnimation, rSession,
                   start, now, last_refresh, last_film_refresh,
                   last_stat_refresh, done, envVars>>
    /\ UNCHANGED <<nameVars, convertVars, nodeVars>>
    /\ UNCHANGED role
    /\ ops' = Append(ops, Op("find_suggested_clamp_value"))
    /\ UNCHANGED refreshed_at

\* main loop: no clamp value to compute (done before, clamping in use, or
\* still warming up); sleep
SlowSleep(use_clamping, slept) ==
    /\ pc = "slow_clamp"
    /\ computed_optimal_clamp \/ use_clamping \/ ~(clock - start > clamp_warmup)
    /\ pc' = "slow_top"
    /\ clock + slept <= MaxClock
    /\ clock' = clock + slept
    /\ UNCHANGED <<engineVars, worldVars, excVars, last, isAnimation, rSession,
                   localVars, envVars>>
    /\ UNCHANGED <<nameVars, convertVars, nodeVars>>
    /\ UNCHANGED role
    /\ UNCHANGED obsVars

\* after the loops: no final refresh
RenderFinalRefreshSkipped ==
    /\ pc = "final"
    /\ pc' = "stopping"
    /\ UNCHANGED <<engineVars, worldVars, excVars, last, isAnimation, rSession,
                   clock, localVars, obsVars, envVars>>
    /\ UNCHANGED <<nameVars, convertVars, nodeVars>>
    /\ UNCHANGED role

\* after the loops: the final refresh with draw_film=True
RenderFinalRefresh ==
    /\ pc = "final"
    /\ afterStop' = (afterStop \/ Stale(session))
    /\ pc' = "stopping"
    /\ UNCHANGED <<engineVars, sess, nextSession, excVars, last, isAnimation, rSession,
                   clock, localVars, envVars>>
    /\ UNCHANGED <<nameVars, convertVars, nodeVars>>
    /\ UNCHANGED role
    /\ ops' = Append(ops, Refresh(TRUE))
    /\ refreshed_at' = clock

\* after the final refresh: Stop(), but the handle is kept
RenderStopKeepHandle ==
    /\ pc = "stopping"
    /\ sess' = Stopped(sess, session)
    /\ afterStop' = (afterStop \/ Stale(session))
    /\ pc' = "idle"
    /\ ResetLocals
    /\ UNCHANGED <<alive, session, error, framebuffer, exporterUsed, updated, nextSession,
                   excVars, last, isAnimation, rSession, clock, envVars>>
    /\ UNCHANGED <<nameVars, convertVars, nodeVars>>
    /\ UNCHANGED role
    /\ ops' = Append(ops, Op("Stop"))
    /\ refreshed_at' = 0

\* after the final refresh: Stop(), then the handle is cleared
RenderStop ==
    /\ pc = "stopping"
    /\ sess' = Dropped(Stopped(sess, session), session)
    /\ afterStop' = (afterStop \/ Stale(session))
    /\ session' = 0
    /\ pc' = "idle"
    /\ ResetLocals
    /\ UNCHANGED <<alive, error, framebuffer, exporterUsed, updated, nextSession,
                   excVars, last, isAnimation, rSession, clock, envVars>>
    /\ UNCHANGED <<nameVars, convertVars, nodeVars>>
    /\ UNCHANGED role
    /\ ops' = ops \o <<Op("Stop"), Op("clear")>>
    /\ refreshed_at' = 0

\* the steps of render() after Start() that call into the session or the
\* exporter, and so can raise
RaisingPcs == {"started", "filesaver", "fast_refresh", "slow_refresh", "final", "stopping"}

\* a step of render() after Start() raises; `clamp` for
\* find_suggested_clamp_value.  Stop() counts as called when it raises, and
\* in the filesaver branch the exception comes from Stop() or after it.
RenderRaises(clamp) ==
    /\ IF clamp
       THEN pc = "slow_clamp" /\ ~computed_optimal_clamp /\ clock - start > clamp_warmup
       ELSE pc \in RaisingPcs
    /\ CanRaise
    /\ Raise("render")
    /\ RenderExcept(nextExc,
                    IF pc \in {"filesaver", "stopping"} THEN Stopped(sess, session) ELSE sess)
    /\ afterStop' = (afterStop \/ Stale(session))
    /\ last' = [last EXCEPT !.exc = nextExc]
    /\ UNCHANGED <<alive, error, framebuffer, exporterUsed, updated, nextSession,
                   isAnimation, rSession, clock, envVars>>
    /\ UNCHANGED <<nameVars, convertVars, nodeVars>>
    /\ UNCHANGED role
    /\ ops' = ops \o (IF pc \in {"filesaver", "stopping"} THEN <<Op("Stop")>> ELSE <<>>)
                  \o ExceptOps
    /\ refreshed_at' = 0

\* ------------------------------------------------------ engine: environment
\* nothing has ended the running render yet
NoEvent == ~breakFlag /\ ~haltMet /\ ~hasDone

\* the user cancels the render: test_break() is true from now on
UserCancels ==
    /\ pc \in LoopPcs
    /\ NoEvent
    /\ breakFlag' = TRUE
    /\ UNCHANGED <<engineVars, worldVars, excVars, last, pc, isAnimation, rSession,
                   clock, localVars, haltMet, hasDone>>
    /\ UNCHANGED <<nameVars, convertVars, nodeVars>>
    /\ UNCHANGED role
    /\ UNCHANGED obsVars

\* the rendered time or sample count passes the user's halt condition
HaltReached ==
    /\ pc \in LoopPcs
    /\ NoEvent
    /\ haltMet' = TRUE
    /\ UNCHANGED <<engineVars, worldVars, excVars, last, pc, isAnimation, rSession,
                   clock, localVars, breakFlag, hasDone>>
    /\ UNCHANGED <<nameVars, convertVars, nodeVars>>
    /\ UNCHANGED role
    /\ UNCHANGED obsVars

\* the session has nothing left to render: HasDone() is true from now on
SessionDone ==
    /\ pc \in LoopPcs
    /\ NoEvent
    /\ hasDone' = TRUE
    /\ UNCHANGED <<engineVars, worldVars, excVars, last, pc, isAnimation, rSession,
                   clock, localVars, breakFlag, haltMet>>
    /\ UNCHANGED <<nameVars, convertVars, nodeVars>>
    /\ UNCHANGED role
    /\ UNCHANGED obsVars

\* ------------------------------------------------------ convert: helpers
None == [none |-> TRUE]

\* material indices the faces of a mesh can carry
MatIndices == {0, 1}

\* pyluxcore.Properties(): no material, shape or object defined
EmptyProps == [materials |-> {}, shapes |-> {}, objects |-> <<>>]

MeshPrefix == <<"M", "e", "s", "h", "-">>
PointinessSuffix == <<"_", "p", "o", "i", "n", "t", "i", "n", "e", "s", "s">>
DupliSuffix == <<"_", "d">>

\* material.convert / material.fallback: the luxcore name of the material in
\* slot mi, and of the fallback material
MaterialName(mi) == <<"m", DigitChar(mi)>>
FallbackName == <<"f">>

\* luxcore_scene.DefineBlenderMesh: one [lux_obj_name, material_index] entry
\* per material index the faces use, in ascending order; the name is the mesh
\* name followed by the index in three digits
RECURSIVE DefineBlenderMesh(_, _)
DefineBlenderMesh(name, faces) ==
    IF faces = {} THEN <<>>
    ELSE LET mi == CHOOSE i \in faces : \A j \in faces : i <= j
         IN  <<  <<name \o <<"0", "0", DigitChar(mi)>>, mi>>  >>
             \o DefineBlenderMesh(name, faces \ {mi})

\* ExportedObject.__init__
ExportedObject(mesh_definitions) ==
    [none |-> FALSE,
     luxcore_names |-> [i \in 1..Len(mesh_definitions) |-> mesh_definitions[i][1]],
     mesh_definitions |-> mesh_definitions]

\* props.Set of one object's keys: a key set again replaces the old value
SetObject(objects, name, rec) ==
    [n \in (DOMAIN objects) \cup {name} |-> IF n = name THEN rec ELSE objects[n]]

\* _define_luxcore_object with _handle_pointiness, defining no shape key
define_luxcore_object_no_shape(props, lux_object_name, lux_material_name, obj_transform, use_pointiness) ==
    [props EXCEPT !.objects = SetObject(@, lux_object_name,
                      [material |-> lux_material_name,
                       shape |-> <<>>,
                       transformation |-> obj_transform])]

\* _define_luxcore_object with _handle_pointiness
define_luxcore_object(props, lux_object_name, lux_material_name, obj_transform, use_pointiness) ==
    LET mesh_shape == MeshPrefix \o lux_object_name
        luxcore_shape_name == IF use_pointiness
                              THEN mesh_shape \o PointinessSuffix ELSE mesh_shape
    IN  [materials |-> props.materials,
         shapes |-> IF use_pointiness
                    THEN props.shapes \cup {luxcore_shape_name} ELSE props.shapes,
         objects |-> SetObject(props.objects, lux_object_name,
                        [material |-> lux_material_name,
                         shape |-> luxcore_shape_name,
                         transformation |-> obj_transform])]

\* the for loop of convert over mesh_definitions, from entry i on, with
\* st = [props, warnings, raised] as the loop has left them
RECURSIVE DefineObjects(_, _, _, _, _, _)
DefineObjects(obj, in, defs, obj_transform, i, st) ==
    IF i > Len(defs) THEN st
    ELSE LET lux_object_name == defs[i][1]
             material_index == defs[i][2]
         IN  IF material_index < Len(obj.slots)
             THEN IF in.raiseAt = material_index
                  THEN [st EXCEPT !.raised = TRUE]
                  ELSE LET has_mat == obj.slots[material_index + 1]
                           lux_mat_name == IF has_mat THEN MaterialName(material_index)
                                           ELSE FallbackName
                       IN  DefineObjects(obj, in, defs, obj_transform, i + 1,
                             [props |-> define_luxcore_object(
                                           [st.props EXCEPT !.materials = @ \cup {lux_mat_name}],
                                           lux_object_name, lux_mat_name, obj_transform,
                                           obj.pointiness),
                              warnings |-> IF has_mat THEN st.warnings
                                           ELSE Append(st.warnings, "no_material_in_slot"),
                              raised |-> FALSE])
             ELSE DefineObjects(obj, in, defs, obj_transform, i + 1,
                    [props |-> define_luxcore_object(
                                  [st.props EXCEPT !.materials = @ \cup {FallbackName}],
                                  lux_object_name, FallbackName, obj_transform,
                                  obj.pointiness),
                     warnings |-> Append(st.warnings, "no_material_defined"),
                     raised |-> FALSE])

\* the mesh_definitions convert works with: None when it returns early,
\* "raise" when the mesh conversion or the assertion raises
MeshDefinitions(in, exported_object, luxcore_name) ==
    IF in.update_mesh
    THEN IF in.raiseAt = -2 THEN "raise"
         ELSE IF in.faces = {} THEN "empty"
         ELSE DefineBlenderMesh(luxcore_name, in.faces)
    ELSE IF exported_object = None THEN "raise"
         ELSE exported_object.mesh_definitions

\* the except branch of convert, returning the properties built so far
convert_except_keep_props(props, warnings) ==
    [props |-> props, exported |-> None,
     warnings |-> Append(warnings, "exception"), path |-> "except"]

\* the except branch of convert: a warning with the object's name and the
\* error, then new empty Properties and None; `props` are those built so far
convert_except(props, warnings) ==
    [props |-> EmptyProps, exported |-> None,
     warnings |-> Append(warnings, "exception"), path |-> "except"]

\* convert(blender_obj, scene, context, luxcore_scene, exported_object,
\*         update_mesh, dupli_suffix) for the object db; the lamp branch is
\* convert_lamp's
convert(db, obj, in, exported_object) ==
    LET early == [props |-> EmptyProps, exported |-> None, warnings |-> <<>>, path |-> "early"]
        luxcore_name == get_luxcore_name(db, in.context)
                        \o (IF in.dupli THEN DupliSuffix ELSE <<>>)
        obj_transform == in.context \/ obj.motion_blur \/ in.dupli
        defs == MeshDefinitions(in, exported_object, luxcore_name)
    IN  IF ~(in.dupli \/ obj.visible) THEN early
        ELSE IF obj.hidden_duplicator THEN early
        ELSE IF db.hasType /\ db.type = TypeLamp THEN [early EXCEPT !.path = "lamp"]
        ELSE IF ~obj.has_data THEN early
        ELSE IF defs = "raise" THEN convert_except(EmptyProps, <<>>)
        ELSE IF defs = "empty" THEN early
        ELSE LET st == DefineObjects(obj, in, defs, obj_transform, 1,
                                     [props |-> EmptyProps, warnings |-> <<>>,
                                      raised |-> FALSE])
             IN  IF st.raised THEN convert_except(st.props, st.warnings)
                 ELSE [props |-> st.props, exported |-> ExportedObject(defs),
                       warnings |-> st.warnings, path |-> "ok"]

\* ------------------------------------------------------ convert: actions
SlotLists == {<<>>, <<TRUE>>, <<FALSE>>, <<TRUE, TRUE>>, <<TRUE, FALSE>>,
              <<FALSE, TRUE>>, <<FALSE, FALSE>>}

\* how many of the early returns apply to the object
Abnormal(obj) ==
    (IF obj.visible THEN 0 ELSE 1) + (IF obj.hidden_duplicator THEN 1 ELSE 0)
    + (IF obj.has_data THEN 0 ELSE 1)

ConvertObjects ==
    {obj \in [visible : BOOLEAN, hidden_duplicator : BOOLEAN, has_data : BOOLEAN,
              motion_blur : BOOLEAN, slots : SlotLists, pointiness : BOOLEAN] :
        /\ Abnormal(obj) <= 1
        /\ Abnormal(obj) = 1 => (obj.slots = <<>> /\ ~obj.pointiness /\ ~obj.motion_blur)}

\* raiseAt: -2 the mesh conversion raises, -1 nothing raises, otherwise the
\* material slot whose conversion raises
ConvertInputs ==
    {in \in [context : BOOLEAN, dupli : BOOLEAN, update_mesh : BOOLEAN,
             faces : SUBSET MatIndices, raiseAt : {-2, -1} \cup MatIndices] :
        in.raiseAt = -2 => in.update_mesh}

NoInput == [context |-> FALSE, dupli |-> FALSE, update_mesh |-> TRUE, faces |-> {},
            raiseAt |-> -1]
NoOutput == [props |-> EmptyProps, exported |-> None, warnings |-> <<>>, path |-> "none"]

NoObject == [visible |-> TRUE, hidden_duplicator |-> FALSE, has_data |-> TRUE,
             motion_blur |-> FALSE, slots |-> <<>>, pointiness |-> FALSE]

ConvertIdle ==
    /\ cvObj = NoObject
    /\ cvIn = NoInput
    /\ cvPrev = None
    /\ cvOut = NoOutput
    /\ cvCache = None

\* The exporter converts the object: with update_mesh it passes no exported
\* object, without it the cached one; it caches what convert returns.
Convert(in) ==
    /\ UNCHANGED <<nameVars, engineAll, nodeVars>>
    /\ in.context = viewport
    /\ in.raiseAt >= 0 => in.raiseAt < Len(cvObj.slots)
    /\ LET exported_object == IF in.update_mesh THEN None ELSE cvCache
           out == convert(dbs[1], cvObj, in, exported_object)
       IN  /\ cvObj' = cvObj
           /\ cvIn' = in
           /\ cvPrev' = exported_object
           /\ cvOut' = out
           /\ cvCache' = IF out.exported = None THEN cvCache ELSE out.exported

\* ------------------------------------------- glossy translucent: the node
\* the input sockets whose names start with "BF ", and the IOR socket
BackfaceSockets == {"BF Specular Color", "BF IOR", "BF Absorption Color",
                    "BF Absorption Depth (nm)", "BF V-Roughness"}
OptionalSockets == BackfaceSockets \cup {"IOR"}

GlossyNodes == [use_anisotropy : BOOLEAN, multibounce : BOOLEAN, use_ior : BOOLEAN,
                use_backface : BOOLEAN, multibounce_bf : BOOLEAN, use_ior_bf : BOOLEAN]

\* the BoolProperty defaults, and the sockets as init() leaves them
DefaultNode == [use_anisotropy |-> FALSE, multibounce |-> FALSE, use_ior |-> FALSE,
                use_backface |-> FALSE, multibounce_bf |-> FALSE, use_ior_bf |-> FALSE]
InitEnabled == [k \in OptionalSockets |-> FALSE]

NoDefinitions == [node |-> DefaultNode, exported |-> FALSE, definitions |-> <<>>]

\* definitions[key] = value, and definitions.update
Put(definitions, key, value) ==
    [k \in (DOMAIN definitions) \cup {key} |->
        IF k = key THEN value ELSE definitions[k]]
Update(definitions, more) ==
    [k \in (DOMAIN definitions) \cup (DOMAIN more) |->
        IF k \in DOMAIN more THEN more[k] ELSE definitions[k]]

\* self.inputs[name].export(props): the value the socket exports
SocketExport(name) == <<"socket", name>>

\* Roughness.export: the roughness keys, those of the back face with
\* use_backface
RoughnessExport(node, definitions) ==
    LET front == Update(definitions,
                        [k \in {"uroughness", "vroughness"} |-> SocketExport(k)])
    IN  IF node.use_backface
        THEN Update(front, [k \in {"uroughness_bf", "vroughness_bf"} |-> SocketExport(k)])
        ELSE front

\* export_common_inputs: the keys every material has
export_common_inputs(definitions) ==
    Update(definitions, [k \in {"transparency", "bumptex"} |-> SocketExport(k)])

\* the back face keys, with the index written whenever use_ior_bf is set
export_backface_index_unguarded(node, definitions) ==
    LET backface ==
            [k \in {"multibounce_bf", "ks_bf", "ka_bf", "d_bf"} |-> SocketExport(k)]
        with_backface == IF node.use_backface THEN Update(definitions, backface)
                         ELSE definitions
    IN  IF node.use_ior_bf THEN Put(with_backface, "index_bf", SocketExport("BF IOR"))
        ELSE with_backface

\* export, the use_backface branch: the back face keys and its index
export_backface(node, definitions) ==
    LET backface ==
            [k \in {"multibounce_bf", "ks_bf", "ka_bf", "d_bf"} |->
                CASE k = "multibounce_bf" -> <<"bool", node.multibounce_bf>>
                  [] k = "ks_bf" -> SocketExport("BF Specular Color")
                  [] k = "ka_bf" -> SocketExport("BF Absorption Color")
                  [] k = "d_bf" -> SocketExport("BF Absorption Depth (nm)")]
    IN  IF node.use_backface
        THEN IF node.use_ior_bf
             THEN Put(Update(definitions, backface), "index_bf", SocketExport("BF IOR"))
             ELSE Update(definitions, backface)
        ELSE definitions

\* LuxCoreNodeMatGlossyTranslucent.export: the definitions handed to
\* base_export
export(node) ==
    LET definitions ==
            [k \in {"type", "kd", "kt", "multibounce", "ks", "ka", "d"} |->
                CASE k = "type" -> <<"string", "glossytranslucent">>
                  [] k = "kd" -> SocketExport("Diffuse Color")
                  [] k = "kt" -> SocketExport("Transmission Color")
                  [] k = "multibounce" -> <<"bool", node.multibounce>>
                  [] k = "ks" -> SocketExport("Specular Color")
                  [] k = "ka" -> SocketExport("Absorption Color")
                  [] k = "d" -> SocketExport("Absorption Depth (nm)")]
        with_ior == IF node.use_ior
                    THEN Put(definitions, "index", SocketExport("IOR"))
                    ELSE definitions
    IN  export_common_inputs(RoughnessExport(node, export_backface(node, with_ior)))

NodeIdle ==
    /\ gtNode = DefaultNode
    /\ gtEnabled = InitEnabled
    /\ gtOut = NoDefinitions

\* ---------------------------------------- glossy translucent: the actions
\* the user toggles "Multibounce" or "BF Multibounce": no update callback
ToggleMultibounce(backface) ==
    /\ UNCHANGED <<nameVars, engineAll, convertVars>>
    /\ gtNode' = IF backface THEN [gtNode EXCEPT !.multibounce_bf = ~@]
                 ELSE [gtNode EXCEPT !.multibounce = ~@]
    /\ UNCHANGED <<gtEnabled, gtOut>>

\* the user toggles "Use IOR": update_use_ior
ToggleUseIor ==
    /\ UNCHANGED <<nameVars, engineAll, convertVars>>
    /\ gtNode' = [gtNode EXCEPT !.use_ior = ~@]
    /\ gtEnabled' = [gtEnabled EXCEPT !["IOR"] = gtNode'.use_ior]
    /\ UNCHANGED gtOut

\* the user toggles "BF Use IOR": update_use_ior_bf
ToggleUseIorBf ==
    /\ UNCHANGED <<nameVars, engineAll, convertVars>>
    /\ gtNode' = [gtNode EXCEPT !.use_ior_bf = ~@]
    /\ gtEnabled' = [gtEnabled EXCEPT !["BF IOR"] = gtNode'.use_ior_bf]
    /\ UNCHANGED gtOut

\* the user toggles "Double Sided": update_use_backface
ToggleUseBackface ==
    /\ UNCHANGED <<nameVars, engineAll, convertVars>>
    /\ gtNode' = [gtNode EXCEPT !.use_backface = ~@]
    /\ gtEnabled' =
         [socket \in OptionalSockets |->
            IF socket \notin BackfaceSockets THEN gtEnabled[socket]
            ELSE IF socket = "BF V-Roughness"
                 THEN gtNode'.use_backface /\ gtNode'.use_anisotropy
            ELSE IF socket = "BF IOR"
                 THEN gtNode'.use_backface /\ gtNode'.use_ior_bf
            ELSE gtNode'.use_backface]
    /\ UNCHANGED gtOut

\* the node is exported
Export ==
    /\ UNCHANGED <<nameVars, engineAll, convertVars>>
    /\ gtOut' = [node |-> gtNode, exported |-> TRUE, definitions |-> export(gtNode)]
    /\ UNCHANGED <<gtNode, gtEnabled>>

\* ------------------------------------------------------ naming: actions
Datablocks ==
    [name : Names, hasType : {FALSE}, type : {<<>>}, ptr : Pointers]
    \cup [name : Names, hasType : {TRUE}, type : Types, ptr : Pointers]

DbIds == {1, 2}

InitNames ==
    /\ dbs \in [DbIds -> Datablocks]
    /\ viewport \in BOOLEAN
    /\ exported = NoNames
    /\ renamed = FALSE
    /\ EngineInit
    /\ ConvertIdle
    /\ NodeIdle

\* A session is created: every datablock is exported under its luxcore name.
ExportNames ==
    /\ UNCHANGED <<engineAll, convertVars, nodeVars>>
    /\ exported = NoNames
    /\ exported' = [i \in DbIds |-> get_luxcore_name(dbs[i], viewport)]
    /\ renamed' = FALSE
    /\ UNCHANGED <<dbs, viewport>>

\* The session ends.
EndExport ==
    /\ UNCHANGED <<engineAll, convertVars, nodeVars>>
    /\ exported # NoNames
    /\ exported' = NoNames
    /\ renamed' = FALSE
    /\ UNCHANGED <<dbs, viewport>>

\* The user renames a datablock while the viewport session runs; its memory
\* identity is kept.  (A final render exports once, from the names it finds.)
Rename(i, n) ==
    /\ UNCHANGED <<engineAll, convertVars, nodeVars>>
    /\ viewport /\ exported # NoNames
    /\ n # dbs[i].name
    /\ dbs' = [dbs EXCEPT ![i].name = n]
    /\ renamed' = TRUE
    /\ UNCHANGED <<viewport, exported>>

\* The user changes the type of a datablock (e.g. converts an object).
Retype(i, t) ==
    /\ UNCHANGED <<engineAll, convertVars, nodeVars>>
    /\ viewport /\ exported # NoNames
    /\ dbs[i].hasType
    /\ t # dbs[i].type
    /\ dbs' = [dbs EXCEPT ![i].type = t]
    /\ renamed' = TRUE
    /\ UNCHANGED <<viewport, exported>>

NextNames ==
    \/ ExportNames
    \/ EndExport
    \/ \E i \in DbIds, n \in Names : Rename(i, n)
    \/ \E i \in DbIds, t \in Types : Retype(i, t)

SpecNames == InitNames /\ [][NextNames]_vars

\* ------------------------------------------------------- engine: the spec
\* the scene of the engine specification: its datablocks play no part
NamesIdle ==
    /\ dbs = [i \in DbIds |-> [name |-> <<"1">>, hasType |-> FALSE, type |-> <<>>, ptr |-> 1]]
    /\ viewport = FALSE
    /\ exported = NoNames
    /\ renamed = FALSE

Init == EngineInit /\ NamesIdle /\ ConvertIdle /\ NodeIdle

Next ==
    \/ Del
    \/ UpdateFails
    \/ UpdateCancelled
    \/ UpdateOk
    \/ ViewUpdateCreate
    \/ \E started \in BOOLEAN : ViewUpdateCreateRaises(started)
    \/ \E changes \in ChangeSets : ViewUpdateChanges(changes)
    \/ \E changes \in ChangeSets, inUpdate \in BOOLEAN : ViewUpdateChangesRaises(changes, inUpdate)
    \/ ViewDrawNoSession
    \/ ViewDrawGetChangesRaises
    \/ \E changes \in ChangeSets : ViewDrawViewUpdate(changes)
    \/ \E changes \in ChangeSets : ViewDrawViewUpdateRaises(changes)
    \/ \E changes \in ChangeSets, over \in BOOLEAN : ViewDrawDraw(changes, over)
    \/ \E changes \in ChangeSets, failAt \in {"update", "stats", "after", "end"},
          over \in BOOLEAN :
           ViewDrawDrawRaises(changes, failAt, over)
    \/ RenderReraise
    \/ RenderCancelled
    \/ \E animation \in BOOLEAN : RenderStart(animation)
    \/ RenderStartRaises
    \/ RenderBranchFilesaver
    \/ \E filesaver_format \in FilesaverFormats : RenderFilesaver(filesaver_format)
    \/ RenderBeginFast
    \/ RenderSkipFast
    \/ FastTop
    \/ FastRefresh
    \/ \E slept \in 0..MaxSleep : FastCheck(slept)
    \/ SlowInit
    \/ SlowTop
    \/ \E changes \in FinalChangeSets : SlowRefresh(changes)
    \/ \E slept \in 0..MaxSleep : SlowClampCompute(slept)
    \/ \E use_clamping \in BOOLEAN, slept \in 0..MaxSleep : SlowSleep(use_clamping, slept)
    \/ RenderFinalRefresh
    \/ RenderStop
    \/ \E clamp \in BOOLEAN : RenderRaises(clamp)
    \/ UserCancels
    \/ HaltReached
    \/ SessionDone

Spec == Init /\ [][Next]_vars

\* ------------------------------------------------------ convert: the spec
\* the object converted: a mesh object or a lamp, exported for the viewport
\* or for a final render
InitConvert ==
    /\ dbs \in [DbIds -> {[name |-> <<"1">>, hasType |-> TRUE, type |-> t, ptr |-> 11] :
                            t \in Types}]
    /\ dbs[2] = dbs[1]
    /\ viewport \in BOOLEAN
    /\ exported = NoNames
    /\ renamed = FALSE
    /\ EngineInit
    /\ cvObj \in ConvertObjects
    /\ cvObj.motion_blur => ~viewport
    /\ cvIn = NoInput
    /\ cvPrev = None
    /\ cvOut = NoOutput
    /\ cvCache = None
    /\ NodeIdle

NextConvert == \E in \in ConvertInputs : Convert(in)

SpecConvert == InitConvert /\ [][NextConvert]_vars

\* ------------------------------------------- glossy translucent: the spec
\* a node as the user may have left it, anisotropy included
InitGlossy ==
    /\ EngineInit
    /\ NamesIdle
    /\ ConvertIdle
    /\ gtNode \in {n \in GlossyNodes :
                     \A f \in (DOMAIN n) \ {"use_anisotropy"} : n[f] = DefaultNode[f]}
    /\ gtEnabled = InitEnabled
    /\ gtOut = NoDefinitions

NextGlossy ==
    \/ \E backface \in BOOLEAN : ToggleMultibounce(backface)
    \/ ToggleUseIor
    \/ ToggleUseIorBf
    \/ ToggleUseBackface
    \/ Export

SpecGlossy == InitGlossy /\ [][NextGlossy]_vars

\* ------------------------------------------------------------ naming: claims

\* C5: two datablocks with different as_pointer() values never get the same
\* luxcore name, in viewport mode and in final-render mode, whatever their
\* names and types are; the names a session was given are distinct as well.
NameUniqueness ==
    \A i, j \in DbIds :
        dbs[i].ptr # dbs[j].ptr =>
            /\ get_luxcore_name(dbs[i], TRUE) # get_luxcore_name(dbs[j], TRUE)
            /\ get_luxcore_name(dbs[i], FALSE) # get_luxcore_name(dbs[j], FALSE)
            /\ exported # NoNames => exported[i] # exported[j]

\* C5 witness: a final-render export of two datablocks at different
\* addresses whose pretty names end in digits and underscores that could be
\* taken for part of the address.
NameUniquenessWitness ==
    /\ ~viewport
    /\ exported # NoNames
    /\ dbs[1].ptr = 1 /\ dbs[2].ptr = 11
    /\ dbs[1].name = <<"_", "1">> /\ dbs[2].name = <<" ">>
    /\ dbs[1].hasType /\ ~dbs[2].hasType

\* C6: in viewport render the name a datablock was exported under is still
\* the name get_luxcore_name gives after any renames and type changes.
NameStability ==
    (viewport /\ exported # NoNames) =>
        \A i \in DbIds : get_luxcore_name(dbs[i], viewport) = exported[i]

\* C6 witness: a viewport session whose datablock was renamed after export.
NameStabilityWitness ==
    /\ viewport
    /\ exported # NoNames
    /\ renamed
    /\ dbs[1].hasType

\* ------------------------------------------------------------ engine: claims

\* C1: a session that render() started is stopped before render() drops its
\* handle, on completion and when a step after Start() raises.
SessionDrained ==
    \A s \in SessionIds :
        (sess[s].by = "render" /\ sess[s].dropped) => sess[s].stops >= 1

\* C2: no session method is invoked on a session after Stop() was called on
\* it or after its handle was dropped, Stop() is called at most once per
\* session, the handle the engine holds is never that of a stopped or dropped
\* session, and view_draw with no session changes nothing.
NoUseAfterTeardown ==
    /\ [](/\ ~afterStop
          /\ \A s \in SessionIds : sess[s].stops <= 1
          /\ (alive /\ session # 0) => ~Stale(session))
    /\ [][(session = 0 /\ last'.cb = "view_draw")
            => /\ UNCHANGED <<engineVars, worldVars, excVars, renderVars>>
               /\ last' = [NoCall EXCEPT !.cb = "view_draw"]]_vars

\* C2 witness: __del__ ran on an engine whose render had stopped its session
\* once and cleared the handle.
NoUseAfterTeardownWitness ==
    /\ last.cb = "__del__"
    /\ \E s \in SessionIds : sess[s].by = "render" /\ sess[s].stops = 1

\* C3: once render() has returned, every exception raised by the export in
\* update() or by a step of render() was caught, reported, added to the error
\* log exactly once, and the session handle is None.
FinalRenderErrorHandling ==
    (pc = "idle" /\ last.cb = "render") =>
        \A e \in ExcIds :
            excAt[e] \in {"export", "update_assert", "render"} =>
                /\ e \notin escaped
                /\ reported[e] >= 1
                /\ logged[e] = 1
                /\ session = 0

\* C4: an exception raised while view_update_lux creates or starts the
\* session, or while view_draw updates or draws, is in the error log, was
\* shown through update_stats, and leaves no session.
ViewportErrorHandling ==
    (/\ last.cb \in {"view_update", "view_draw"}
     /\ last.exc # 0
     /\ excAt[last.exc] \in {"view_create", "view_start", "view_draw"}) =>
        /\ logged[last.exc] >= 1
        /\ last.exc \in statsErr
        /\ session = 0

\* C7: after Start() a render that is no animation enters the fast loop and
\* an animation the main loop; the fast loop is left for the main loop only
\* when done or when more than FAST_REFRESH_DURATION seconds have passed since
\* start, and is left then; the main loop and what follows never go back to
\* the fast loop; an animation is never in the fast loop.
PollingPhases ==
    [][/\ (pc = "started" /\ pc' \in LoopPcs) =>
             pc' = (IF isAnimation THEN "slow_init" ELSE "fast_top")
       /\ (pc \in FastPcs /\ pc' \in SlowPcs) =>
             (done \/ now - start > FAST_REFRESH_DURATION)
       /\ (pc = "fast_check" /\ pc' # pc /\ now - start > FAST_REFRESH_DURATION)
             => pc' \notin FastPcs
       /\ (pc \in SlowPcs \cup {"final", "stopping", "filesaver"}) => pc' \notin FastPcs
       /\ (isAnimation' /\ pc' # "idle") => pc' \notin FastPcs]_vars

\* C7 witness: the fast loop ran out of time with the render not done, and
\* the main loop is being set up.
PollingPhasesWitness ==
    /\ pc = "slow_init"
    /\ ~isAnimation
    /\ ~done
    /\ now - start > FAST_REFRESH_DURATION

\* C8: a started render in which a halt condition was met, the user
\* cancelled or the session reported HasDone() has, once it has returned,
\* stopped its session.
HaltStopsSession ==
    (/\ pc = "idle"
     /\ last.cb = "render"
     /\ rSession # 0
     /\ haltMet \/ breakFlag \/ hasDone) => sess[rSession].stops >= 1

\* C9: view_draw with changes that require a view update asks for a redraw,
\* hands all the changes to view_update_lux and neither updates nor draws the
\* framebuffer; otherwise a camera change is sent as Change.CAMERA alone;
\* nothing but CAMERA is sent from view_draw itself, and nothing at all when
\* there are no changes.
ChangeDispatch ==
    (last.cb = "view_draw" /\ last.ran) =>
        /\ BitAnd(last.changes, REQUIRES_VIEW_UPDATE) # 0 =>
              /\ last.redraw
              /\ last.via = "view_update_lux"
              /\ last.sent = last.changes
              /\ ~last.fb /\ ~last.pause
        /\ (BitAnd(last.changes, REQUIRES_VIEW_UPDATE) = 0
            /\ BitAnd(last.changes, CAMERA) # 0) =>
              /\ last.via = "view_draw"
              /\ last.sent = CAMERA
        /\ (BitAnd(last.changes, REQUIRES_VIEW_UPDATE) = 0
            /\ BitAnd(last.changes, CAMERA) = 0) =>
              /\ last.via = "none"
              /\ last.sent = 0
        /\ last.via = "view_draw" => last.sent = CAMERA

\* C9 witness: view_draw saw config, camera and object changes at once and
\* passed them on to view_update_lux.
ChangeDispatchWitness ==
    /\ last.cb = "view_draw"
    /\ last.exc = 0
    /\ last.changes = CONFIG + CAMERA + OBJECT
    /\ last.via = "view_update_lux"

\* ------------------------------------------------------------ convert: claims
\* C10  One-to-many object mapping: a convert that succeeds for a mesh object
\* defines exactly one engine object, with its material and its shape key,
\* for each entry of mesh_definitions; luxcore_names of the returned
\* ExportedObject lists those object names in the order and length of
\* mesh_definitions; with update_mesh false the mesh_definitions are those
\* of the previous ExportedObject.
OneToManyMapping ==
    cvOut.path = "ok" =>
        LET defs == cvOut.exported.mesh_definitions
            objects == cvOut.props.objects
        IN  /\ DOMAIN objects = {defs[i][1] : i \in 1..Len(defs)}
            /\ Cardinality(DOMAIN objects) = Len(defs)
            /\ \A i \in 1..Len(defs) :
                   /\ objects[defs[i][1]].material # <<>>
                   /\ objects[defs[i][1]].shape # <<>>
            /\ Len(cvOut.exported.luxcore_names) = Len(defs)
            /\ \A i \in 1..Len(defs) : cvOut.exported.luxcore_names[i] = defs[i][1]
            /\ ~cvIn.update_mesh =>
                   (cvPrev # None /\ defs = cvPrev.mesh_definitions)

\* a multi-material mesh object exported again from its cached mesh
OneToManyMappingWitness ==
    /\ cvOut.path = "ok"
    /\ ~cvIn.update_mesh
    /\ Len(cvOut.exported.luxcore_names) = 2
    /\ Cardinality(DOMAIN cvOut.props.objects) = 2

\* ------------------------------------------------ glossy translucent: claims
\* C11  Glossy-translucent serialization: the exported definitions always
\* hold type, kd, kt, multibounce, ks, ka and d; they hold "index" exactly
\* when use_ior is set, multibounce_bf, ks_bf, ka_bf and d_bf exactly when
\* use_backface is set, and "index_bf" exactly when use_backface and
\* use_ior_bf are both set.
GlossyTranslucentKeys ==
    gtOut.exported =>
        LET keys == DOMAIN gtOut.definitions
            node == gtOut.node
        IN  /\ {"type", "kd", "kt", "multibounce", "ks", "ka", "d"} \subseteq keys
            /\ ("index" \in keys) <=> node.use_ior
            /\ \A k \in {"multibounce_bf", "ks_bf", "ka_bf", "d_bf"} :
                   (k \in keys) <=> node.use_backface
            /\ ("index_bf" \in keys) <=> (node.use_backface /\ node.use_ior_bf)

\* C11 witness: a node exported with the back face IOR switched on and the
\* back face itself switched off.
GlossyTranslucentKeysWitness ==
    /\ gtOut.exported
    /\ gtOut.node.use_ior_bf /\ ~gtOut.node.use_backface /\ gtOut.node.use_ior
    /\ gtEnabled["BF IOR"]

\* ---------------------------------------------------- engine: more claims
\* the last render() was started, has returned without an exception and
\* went through the polling loops (FALSE after the filesaver branch)
ReturnedFromLoops ==
    /\ pc = "idle" /\ last.cb = "render" /\ last.ran /\ last.exc = 0
    /\ rSession # 0
    /\ ~(ops # <<>> /\ ops[1].op = "Start")

\* the last render() was started, has returned without an exception and
\* took the filesaver branch
ReturnedFromFilesaver ==
    /\ pc = "idle" /\ last.cb = "render" /\ last.ran /\ last.exc = 0
    /\ rSession # 0
    /\ ops # <<>> /\ ops[1].op = "Start"

\* C12  Final refresh ordering: a started render that left the polling loops
\* without an exception did, after its last halt-condition check, exactly one
\* refresh with draw_film=True, then Stop(), exactly once, then cleared the
\* handle, and nothing else.
FinalRefreshOrdering ==
    /\ pc = "final" => ops = <<>>
    /\ pc = "stopping" => ops = <<Refresh(TRUE)>>
    /\ ReturnedFromLoops =>
          /\ ops = <<Refresh(TRUE), Op("Stop"), Op("clear")>>
          /\ sess[rSession].stops = 1
          /\ sess[rSession].dropped
          /\ session = 0

\* C12 witness: a render ended by a halt condition has returned.
FinalRefreshOrderingWitness ==
    /\ ReturnedFromLoops
    /\ haltMet
    /\ Len(ops) = 3

\* C13  Filesaver mode: with use_filesaver set render() calls Start() and then
\* Stop() with no refresh, halt-condition check or polling loop in between,
\* reports the path of filesaver.filename for format BIN and of
\* filesaver.directory otherwise, clears the handle and returns.
FilesaverMode ==
    /\ pc = "filesaver" => ops = <<Op("Start")>>
    /\ ReturnedFromFilesaver =>
          /\ Len(ops) = 4
          /\ ops[2] = Op("Stop")
          /\ ops[3].op = "report"
          /\ ops[3].path = (IF ops[3].format = "BIN" THEN "filesaver.filename"
                            ELSE "filesaver.directory")
          /\ ops[4] = Op("clear")
          /\ sess[rSession].stops = 1
          /\ session = 0
          /\ refreshed_at = 0

\* C13 witness: a filesaver export in the BIN format has returned.
FilesaverModeWitness ==
    /\ ReturnedFromFilesaver
    /\ ops[3].format = "BIN"

\* C14  Session handle is clear after render: whenever render() has returned,
\* by any path, self._session is None; and an update() that follows a
\* render(), or is the first call on the instance, finds the session None
\* and does not fail its assertion.
HandleClearAfterRender ==
    /\ []((pc = "idle" /\ last.cb = "render") => session = 0)
    /\ [][(~updated /\ updated') =>
             /\ session = 0
             /\ last'.exc # 0 => excAt'[last'.exc] # "update_assert"]_vars

\* C14 witness: update() has created a session on an instance whose earlier
\* render ended in the except branch.
HandleClearAfterRenderWitness ==
    /\ updated /\ last.cb = "update" /\ last.exc = 0
    /\ session # 0
    /\ \E s \in SessionIds : s # session /\ sess[s].by = "render" /\ sess[s].dropped
    /\ \E e \in ExcIds : excAt[e] = "render"

\* C15  No stale export error: render() re-raises an export error only if the
\* update() call immediately before it raised that error.
NoStaleExportError ==
    last.cb = "render" => ~last.stale

\* C16  Fast-phase refresh spacing: a refresh in the fast phase comes more
\* than refresh_interval after the refresh before it.
FastRefreshSpacing ==
    (pc = "fast_refresh" /\ refreshed_at # 0) => now - refreshed_at > refresh_interval

\* C17  Slow-phase refresh policy: a stats refresh of the main loop comes more
\* than stat_refresh_interval after the refresh before it; it updates the
\* session with the detected changes first, then refreshes, then checks the
\* halt conditions; the film is drawn exactly when display.interval has
\* elapsed since last_film_refresh or the change set is not empty;
\* last_stat_refresh advances to now, last_film_refresh only when the film
\* was drawn; no other step of the main loop moves them.
SlowRefreshPolicy ==
    [][/\ (pc = "slow_refresh" /\ pc' = "slow_clamp") =>
             /\ now - last_stat_refresh > stat_refresh_interval
             /\ refreshed_at # 0 => now - refreshed_at > stat_refresh_interval
             /\ Len(ops') = 4
             /\ ops'[1].op = "get_changes"
             /\ ops'[2] = [Op("update_session") EXCEPT !.changes = ops'[1].changes]
             /\ ops'[3].op = "refresh"
             /\ ops'[4] = Op("halt_check")
             /\ ops'[3].draw_film <=>
                   (now - last_film_refresh >= display_interval \/ ops'[1].changes # 0)
             /\ last_stat_refresh' = now /\ last_stat_refresh' > last_stat_refresh
             /\ last_film_refresh' = (IF ops'[3].draw_film THEN now ELSE last_film_refresh)
       /\ (pc \in {"slow_top", "slow_clamp"} /\ pc' \in SlowPcs) =>
             UNCHANGED <<last_stat_refresh, last_film_refresh>>]_vars

\* C17 witness: a stats refresh that did not draw the film.
SlowRefreshPolicyWitness ==
    /\ pc = "slow_clamp"
    /\ Len(ops) = 4
    /\ ops[3].op = "refresh" /\ ~ops[3].draw_film
    /\ last_stat_refresh > last_film_refresh

====
